---- MODULE Spec2Model ----
(***************************************************************************)
(* State-machine model of src/src/App.jsx: the App component of the        *)
(* consultation front end.  React state, the pollingRef, the cookie jar,   *)
(* the live interval timers, the pending timeouts and the fetches in       *)
(* flight are the variables; every event handler, effect, timer callback   *)
(* and request continuation is an action.                                  *)
(*                                                                         *)
(* Closures: an async handler keeps the values of the render in which it   *)
(* was created.  The values a continuation reads after its await are       *)
(* carried in the record of the fetch in flight (tok, cpage, cfilt), and   *)
(* the values an interval callback reads are carried in the timer record.  *)
(***************************************************************************)
EXTENDS Integers, Sequences, FiniteSets, Bags, TLC

\* ------------------------------------------------------------- bounds
MaxPending == 2      \* fetches in flight plus delayed closes pending
MaxSessions == 2     \* setInterval handles handed out in one page life
MaxItems == 2        \* length of a list that a creation still extends
MaxPage == 2         \* page number the Next buttons still go to

\* ------------------------------------------------------------- values
UNDEF == "<undefined>"      \* JavaScript undefined (a missing field)
NULL == "<null>"            \* JavaScript / JSON null

Truthy(v) == v \notin {UNDEF, NULL, ""}

PAGES == {"login", "patients", "consultations"}
COOKIE_ACCESS == "access_token"
COOKIE_REFRESH == "refresh_token"

AccessDays == 1
RefreshDays == 7

InProgressMessage == "AI is generating the summary. This may take a few seconds."
RefreshingMessage == "Summary ready. Refreshing list..."

Ids == {1, 2}               \* ids of the records the server holds
AccessTokens == {"a1"}
RefreshTokens == {"r/1"}

\* encodeURIComponent / decodeURIComponent on the values a token field can
\* hold: undefined is stringified, "/" is percent-encoded, the unreserved
\* characters are kept.
encodeURIComponent(v) ==
  CASE v = UNDEF -> "undefined"
    [] v = "r/1" -> "r%2F1"
    [] OTHER -> v

decodeURIComponent(s) ==
  CASE s = "r%2F1" -> "r/1"
    [] OTHER -> s

\* ------------------------------------------------------------- state
VARIABLES
  mounted,              \* the App instance is mounted
  page, accessToken, refreshToken, status,
  patients, patientForm, patientFilters, patientPage, patientMeta,
  consultations, consultationForm, consultationFilters,
  consultationPage, consultationMeta,
  summaryDialog, initialLoaded,
  pollingRef,           \* pollingRef.current: 0 is null, else a handle
  intervals,            \* the live setInterval timers, with their closures
  nextHandle,           \* the next handle setInterval returns
  timeouts,             \* bag of pending setTimeout closes (by session)
  ended,                \* history: the sessions whose timer the user's
                        \* dismissal or the start of a new session cleared
  cookies,              \* document.cookie: name -> entry
  inflight,             \* bag of fetches in flight
  loadLog,              \* history: the list loads in flight in the order of
                        \* their issue, and whether an overtaken load wrote
                        \* the page state held
  rejected              \* some async handler ended in an unhandled rejection

viewVars == <<mounted, page, status, initialLoaded>>
tokenVars == <<accessToken, refreshToken>>
patientVars == <<patients, patientForm, patientFilters, patientPage, patientMeta>>
consultationVars == <<consultations, consultationForm, consultationFilters,
                      consultationPage, consultationMeta>>
pollVars == <<summaryDialog, pollingRef, intervals, nextHandle, timeouts, ended>>
vars == <<viewVars, tokenVars, patientVars, consultationVars, pollVars,
          cookies, inflight, rejected, loadLog>>

EmptyPatientForm == [full_name |-> "", date_of_birth |-> "", email |-> ""]
EmptyConsultationForm == [patient |-> "", symptoms |-> "", diagnosis |-> ""]
ClearedPatientFilters ==
  [full_name |-> "", email |-> "", date_of_birth_from |-> "", date_of_birth_to |-> ""]
ClearedConsultationFilters ==
  [patient_id |-> "", created_at_from |-> "", created_at_to |-> ""]
InitialMeta == [count |-> 0, next |-> NULL, previous |-> NULL]
ClosedDialog == [open |-> FALSE, message |-> "", id |-> 0]

NoCookie == [present |-> FALSE, value |-> "", days |-> 0]
NoCookies == [n \in {COOKIE_ACCESS, COOKIE_REFRESH} |-> NoCookie]

isLoggedIn == Truthy(accessToken)

\* A state setter of an unmounted component does nothing.
Set(new, old) == IF mounted THEN new ELSE old

\* ------------------------------------------------------------- cookies
setCookie(jar, name, value, days) ==
  [jar EXCEPT ![name] =
     [present |-> TRUE, value |-> encodeURIComponent(value), days |-> days]]

\* getCookie with the name test of the row left out: the first entry that
\* is present is taken.
getCookieOfAnyName(jar, name) ==
  IF \A n \in DOMAIN jar : ~jar[n].present THEN ""
  ELSE decodeURIComponent(jar[CHOOSE n \in DOMAIN jar : jar[n].present].value)

getCookie(jar, name) ==
  IF ~jar[name].present THEN "" ELSE decodeURIComponent(jar[name].value)

clearCookie(jar, name) == [jar EXCEPT ![name] = NoCookie]

\* ------------------------------------------------------------- buildQuery
\* The query is the sequence of <<key, value>> pairs URLSearchParams holds,
\* in insertion order; a value is kept when it is not blank.
\* The test of buildQuery without the trim.
BlankWithoutTrim(v) == v \in {UNDEF, NULL, ""}

Blank(v) == v \in {UNDEF, NULL, "", " "}

RECURSIVE buildQuery(_)
buildQuery(entries) ==
  IF entries = <<>> THEN <<>>
  ELSE LET e == Head(entries)
           rest == buildQuery(Tail(entries))
       IN IF ~Blank(e[2]) THEN <<e>> \o rest ELSE rest

PatientQuery(pageNumber, filters) ==
  buildQuery(<< <<"page", ToString(pageNumber)>>,
                <<"full_name", filters.full_name>>,
                <<"email", filters.email>>,
                <<"date_of_birth_from", filters.date_of_birth_from>>,
                <<"date_of_birth_to", filters.date_of_birth_to>> >>)

ConsultationQuery(pageNumber, filters) ==
  buildQuery(<< <<"page", ToString(pageNumber)>>,
                <<"patient_id", filters.patient_id>>,
                <<"created_at_from", filters.created_at_from>>,
                <<"created_at_to", filters.created_at_to>> >>)

\* ------------------------------------------------------------- fetches
\* A fetch in flight, with what its continuation closes over:
\*   tok    the access token of authHeaders when request was called
\*   arg    pageNumber of a load, consultationId of a summary request
\*   h      the interval handle of the poll session the fetch belongs to
\*          (0: none)
\*   cpage, cfilt  consultationPage and consultationFilters of the render
\*          in which generateSummary was called
Req(kind, tok, arg, query, h, cpage, cfilt) ==
  [kind |-> kind, tok |-> tok, arg |-> arg, query |-> query,
   h |-> h, cpage |-> cpage, cfilt |-> cfilt]

PlainReq(kind, tok, arg, query) ==
  Req(kind, tok, arg, query, 0, 0, ClearedConsultationFilters)

InFlight == BagToSet(inflight)
NumPending == BagCardinality(inflight) + BagCardinality(timeouts)
Issue(bag, r) == bag (+) SetToBag({r})
Settle(bag, r) == bag (-) SetToBag({r})

\* The history of the list loads.  For each of the two load functions:
\* pending, the calls awaiting their response, oldest first, each with
\* overtaken (a call made after it has already written the page state); and
\* stale (the call that wrote the page state held had been overtaken).
EmptyLog ==
  [k \in {"loadPatients", "loadConsultations"} |-> [pending |-> <<>>, stale |-> FALSE]]

IsLoad(r) == r.kind \in DOMAIN EmptyLog

Logged(log, r) ==
  IF IsLoad(r)
    THEN [log EXCEPT ![r.kind].pending = Append(@, [req |-> r, overtaken |-> FALSE])]
    ELSE log

RECURSIVE LoggedAll(_, _)
LoggedAll(log, reqs) ==
  IF reqs = <<>> THEN log ELSE LoggedAll(Logged(log, Head(reqs)), Tail(reqs))

\* The places r may have in the history (0 for a fetch that is not a load).
Positions(log, r) ==
  IF IsLoad(r)
    THEN {i \in 1..Len(log[r.kind].pending) : log[r.kind].pending[i].req = r}
    ELSE {0}

\* The history after the call at place i has returned; wrote: it has
\* written the page state.
Completed(log, r, i, wrote) ==
  IF ~IsLoad(r) THEN log
  ELSE LET p == log[r.kind].pending
           marked == [j \in 1..Len(p) |->
                        IF wrote /\ j < i THEN [p[j] EXCEPT !.overtaken = TRUE]
                        ELSE p[j]]
       IN [log EXCEPT ![r.kind] =
             [pending |-> SubSeq(marked, 1, i - 1) \o SubSeq(marked, i + 1, Len(p)),
              stale |-> IF wrote THEN p[i].overtaken ELSE @.stale]]

\* The body of a response.  A bare array has isArray; an object has the
\* fields it has (UNDEF, 0 or -1 where it has none); a text body that is no
\* JSON reads like an object without fields.
NoData ==
  [isArray |-> FALSE, hasResults |-> FALSE, items |-> <<>>, count |-> -1,
   next |-> UNDEF, previous |-> UNDEF, detail |-> UNDEF, error |-> UNDEF,
   access |-> UNDEF, refresh |-> UNDEF, id |-> 0, status |-> UNDEF]

\* What fetch does: threw is a transport failure (fetch rejects, there is
\* no response); otherwise ok is res.ok and data the parsed body.
Response(threw, ok, data) == [threw |-> threw, ok |-> ok, data |-> data]
TransportFailure == Response(TRUE, FALSE, NoData)

\* request: the status it leaves (setStatus on a response that is not ok).
\* A transport failure rejects before any statement after the fetch runs.
ErrorMessage(data) ==
  IF Truthy(data.detail) THEN data.detail
  ELSE IF Truthy(data.error) THEN data.error
  ELSE "Request failed"

request(resp, st) ==
  IF ~resp.threw /\ ~resp.ok THEN "Error: " \o ErrorMessage(resp.data) ELSE st

\* ------------------------------------------------------------- Init
\* The state after the first mount in a browser that holds no cookie: the
\* useState defaults; the mount effects found nothing to do.
Init ==
  /\ mounted = TRUE
  /\ page = "login"
  /\ accessToken = ""
  /\ refreshToken = ""
  /\ status = ""
  /\ patients = <<>>
  /\ patientForm = EmptyPatientForm
  /\ patientFilters = ClearedPatientFilters
  /\ patientPage = 1
  /\ patientMeta = InitialMeta
  /\ consultations = <<>>
  /\ consultationForm = EmptyConsultationForm
  /\ consultationFilters = ClearedConsultationFilters
  /\ consultationPage = 1
  /\ consultationMeta = InitialMeta
  /\ summaryDialog = ClosedDialog
  /\ initialLoaded = FALSE
  /\ pollingRef = 0
  /\ intervals = {}
  /\ nextHandle = 1
  /\ timeouts = EmptyBag
  /\ ended = {}
  /\ cookies = NoCookies
  /\ inflight = EmptyBag
  /\ rejected = FALSE
  /\ loadLog = EmptyLog

\* ------------------------------------------------------------- stopPolling
\* stopPolling with the clearInterval call left out.
stopPollingWithoutClear(ref, ivs) == [ref |-> 0, ivs |-> ivs]

\* The result of stopPolling on (pollingRef.current, live timers).
stopPolling(ref, ivs) ==
  IF ref # 0
    THEN [ref |-> 0, ivs |-> {t \in ivs : t.h # ref}]
    ELSE [ref |-> ref, ivs |-> ivs]

\* The history of a call of stopPolling made by a dismissal or a start.
Ended(by) ==
  IF pollingRef # 0 THEN ended \cup {[h |-> pollingRef, by |-> by]} ELSE ended

\* ------------------------------------------------------------- effects
\* The two effects that depend on state, run after the render that commits
\* an action's updates.  tok, pg, pats, il are the committed values; base is
\* the bag of fetches and st the status the action itself leaves.  A load
\* called by an effect clears the status (setStatus('')) and carries the
\* token of the new render.
InitialLoadDue(tok, il) ==
  /\ mounted
  /\ tok # accessToken \/ il # initialLoaded
  /\ Truthy(tok) /\ ~il

PatientsReloadDue(pg, tok, pats) ==
  /\ mounted
  /\ pg # page \/ tok # accessToken \/ Len(pats) # Len(patients)
  /\ pg = "consultations" /\ Truthy(tok) /\ Len(pats) = 0

LoadPatientsReq(tok, pageNumber, filters) ==
  PlainReq("loadPatients", tok, pageNumber, PatientQuery(pageNumber, filters))

LoadConsultationsReq(tok, pageNumber, filters) ==
  PlainReq("loadConsultations", tok, pageNumber,
           ConsultationQuery(pageNumber, filters))

EffectLoads(pg, tok, pats, il) ==
  (IF InitialLoadDue(tok, il)
     THEN SetToBag({LoadPatientsReq(tok, 1, patientFilters),
                    LoadConsultationsReq(tok, 1, consultationFilters)})
     ELSE EmptyBag)
  (+)
  (IF PatientsReloadDue(pg, tok, pats)
     THEN SetToBag({LoadPatientsReq(tok, 1, patientFilters)})
     ELSE EmptyBag)

\* The same loads in the order of their calls.
EffectLoadCalls(pg, tok, pats, il) ==
  (IF InitialLoadDue(tok, il)
     THEN <<LoadPatientsReq(tok, 1, patientFilters),
            LoadConsultationsReq(tok, 1, consultationFilters)>>
     ELSE <<>>)
  \o
  (IF PatientsReloadDue(pg, tok, pats)
     THEN <<LoadPatientsReq(tok, 1, patientFilters)>>
     ELSE <<>>)

\* log is the history the action itself leaves.
RunEffects(pg, tok, pats, il, base, st, log) ==
  LET loads == EffectLoads(pg, tok, pats, il) IN
  /\ BagCardinality(base (+) loads) + BagCardinality(timeouts) <= MaxPending
  /\ inflight' = base (+) loads
  /\ loadLog' = LoggedAll(log, EffectLoadCalls(pg, tok, pats, il))
  /\ initialLoaded' = IF InitialLoadDue(tok, il) THEN TRUE ELSE il
  /\ status' = IF loads # EmptyBag THEN "" ELSE st

\* A continuation that ended in a rejection: nothing after the await ran.
Reject(r) ==
  /\ inflight' = Settle(inflight, r)
  /\ rejected' = TRUE
  /\ \E i \in Positions(loadLog, r) : loadLog' = Completed(loadLog, r, i, FALSE)
  /\ UNCHANGED <<viewVars, tokenVars, patientVars, consultationVars, pollVars,
                 cookies>>

\* ------------------------------------------------------------- session
\* The nav buttons: setPage(item.id).
Navigate(p) ==
  /\ mounted
  /\ p \in PAGES
  /\ page' = p
  /\ RunEffects(p, accessToken, patients, initialLoaded, inflight, status,
                loadLog)
  /\ UNCHANGED <<mounted, tokenVars, patientVars, consultationVars, pollVars,
                 cookies, rejected>>

\* handleLogin up to its await: the form is rendered on the login page while
\* logged out.
SubmitLogin ==
  /\ mounted /\ page = "login" /\ ~isLoggedIn
  /\ NumPending < MaxPending
  /\ status' = ""
  /\ inflight' = Issue(inflight, PlainReq("login", accessToken, 0, <<>>))
  /\ UNCHANGED <<mounted, page, initialLoaded, tokenVars, patientVars,
                 consultationVars, pollVars, cookies, rejected, loadLog>>

LoginResponses ==
  {Response(FALSE, ok, [NoData EXCEPT !.access = a, !.refresh = f, !.detail = d]) :
     ok \in BOOLEAN, a \in AccessTokens \cup {UNDEF},
     f \in RefreshTokens \cup {UNDEF}, d \in {UNDEF, "No active account"}}
  \cup {TransportFailure}

\* handleLogin after its await.
handleLogin(r, resp) ==
  LET data == resp.data
      st == Set(request(resp, status), status)
  IN IF Truthy(data.access)
       THEN /\ accessToken' = Set(data.access, accessToken)
            /\ refreshToken' = Set(data.refresh, refreshToken)
            /\ cookies' = setCookie(setCookie(cookies, COOKIE_ACCESS, data.access,
                                              AccessDays),
                                    COOKIE_REFRESH, data.refresh, RefreshDays)
            /\ page' = Set("patients", page)
            /\ RunEffects(Set("patients", page), Set(data.access, accessToken),
                          patients, initialLoaded, Settle(inflight, r),
                          Set("Logged in.", status), loadLog)
       ELSE /\ inflight' = Settle(inflight, r)
            /\ status' = st
            /\ UNCHANGED <<page, initialLoaded, tokenVars, cookies, loadLog>>

LoginResponse(r, resp) ==
  /\ r \in InFlight /\ r.kind = "login"
  /\ IF resp.threw
       THEN Reject(r)
       ELSE /\ handleLogin(r, resp)
            /\ UNCHANGED <<mounted, patientVars, consultationVars, pollVars,
                           rejected>>

\* What handleLogout writes, as a record of the state it leaves.
LogoutView ==
  [accessToken |-> accessToken, refreshToken |-> refreshToken,
   cookies |-> cookies, patients |-> patients, consultations |-> consultations,
   initialLoaded |-> initialLoaded, page |-> page, status |-> status]

\* handleLogout with the second clearCookie call left out.
handleLogoutKeepsRefreshCookie(v) ==
  [accessToken |-> "", refreshToken |-> "",
   cookies |-> clearCookie(v.cookies, COOKIE_ACCESS),
   patients |-> <<>>, consultations |-> <<>>,
   initialLoaded |-> FALSE, page |-> "login", status |-> "Logged out."]

handleLogout(v) ==
  [accessToken |-> "", refreshToken |-> "",
   cookies |-> clearCookie(clearCookie(v.cookies, COOKIE_ACCESS), COOKIE_REFRESH),
   patients |-> <<>>, consultations |-> <<>>,
   initialLoaded |-> FALSE, page |-> "login", status |-> "Logged out."]

\* The Logout buttons, rendered while logged in: handleLogout and the render
\* that follows it.
HandleLogout ==
  LET v == handleLogout(LogoutView) IN
  /\ mounted /\ isLoggedIn
  /\ accessToken' = v.accessToken
  /\ refreshToken' = v.refreshToken
  /\ cookies' = v.cookies
  /\ patients' = v.patients
  /\ consultations' = v.consultations
  /\ page' = v.page
  /\ RunEffects(v.page, v.accessToken, v.patients, v.initialLoaded, inflight,
                v.status, loadLog)
  /\ UNCHANGED <<mounted, patientForm, patientFilters, patientPage, patientMeta,
                 consultationForm, consultationFilters, consultationPage,
                 consultationMeta, pollVars, rejected>>

\* A cookie expires when its lifetime is over.  Both cookies are written in
\* the same handler run, so the one with the shorter lifetime goes first.
ExpireCookie(name) ==
  /\ cookies[name].present
  /\ \A n \in DOMAIN cookies :
       cookies[n].present => cookies[n].days >= cookies[name].days
  /\ cookies' = clearCookie(cookies, name)
  /\ UNCHANGED <<viewVars, tokenVars, patientVars, consultationVars, pollVars,
                 inflight, rejected, loadLog>>

\* The page is loaded again: a new App instance with the useState defaults,
\* no timer and no fetch of the old page; the cookie jar is kept.  The
\* restore effect (useEffect, []) reads the cookies, then the render it
\* causes runs the initial-load effect.
Restore ==
  LET savedAccess == getCookie(cookies, COOKIE_ACCESS)
      savedRefresh == getCookie(cookies, COOKIE_REFRESH)
      calls == IF Truthy(savedAccess)
                 THEN <<LoadPatientsReq(savedAccess, 1, ClearedPatientFilters),
                        LoadConsultationsReq(savedAccess, 1,
                                             ClearedConsultationFilters)>>
                 ELSE <<>>
      loads == SetToBag({calls[i] : i \in 1..Len(calls)})
  IN
  /\ BagCardinality(loads) <= MaxPending
  /\ mounted' = TRUE
  /\ accessToken' = IF Truthy(savedAccess) THEN savedAccess ELSE ""
  /\ refreshToken' = IF Truthy(savedAccess) THEN savedRefresh ELSE ""
  /\ page' = IF Truthy(savedAccess) THEN "patients" ELSE "login"
  /\ initialLoaded' = Truthy(savedAccess)
  /\ status' = ""
  /\ inflight' = loads
  /\ patients' = <<>>
  /\ patientForm' = EmptyPatientForm
  /\ patientFilters' = ClearedPatientFilters
  /\ patientPage' = 1
  /\ patientMeta' = InitialMeta
  /\ consultations' = <<>>
  /\ consultationForm' = EmptyConsultationForm
  /\ consultationFilters' = ClearedConsultationFilters
  /\ consultationPage' = 1
  /\ consultationMeta' = InitialMeta
  /\ summaryDialog' = ClosedDialog
  /\ pollingRef' = 0
  /\ intervals' = {}
  /\ nextHandle' = 1
  /\ timeouts' = EmptyBag
  /\ ended' = {}
  /\ rejected' = FALSE
  /\ loadLog' = LoggedAll(EmptyLog, calls)
  /\ UNCHANGED cookies

\* View teardown: the cleanup of the last effect calls stopPolling.
Unmount ==
  /\ mounted
  /\ mounted' = FALSE
  /\ pollingRef' = stopPolling(pollingRef, intervals).ref
  /\ intervals' = stopPolling(pollingRef, intervals).ivs
  /\ UNCHANGED <<ended, page, status, initialLoaded, tokenVars, patientVars,
                 consultationVars, summaryDialog, nextHandle, timeouts,
                 cookies, inflight, rejected, loadLog>>

\* ------------------------------------------------------------- lists
ServerLists == {<<>>, <<1>>, <<1, 2>>}
FieldValues == {"", "x"}
FilterValues == FieldValues \cup {" "}    \* a filter input may hold blanks only

\* What the server may answer to a list request: a bare array, a paginated
\* envelope, or an object with neither; each with or without a 2xx status.
ListResponses ==
  {Response(FALSE, ok, [NoData EXCEPT !.isArray = TRUE, !.items = l]) :
     ok \in BOOLEAN, l \in ServerLists}
  \cup
  {Response(FALSE, ok, [NoData EXCEPT !.hasResults = TRUE, !.items = l,
                                      !.count = c, !.next = n, !.previous = p]) :
     ok \in BOOLEAN, l \in ServerLists, c \in {-1, 0, 1, 2},
     n \in {NULL, "next-url"}, p \in {NULL, "previous-url"}}
  \cup
  {Response(FALSE, ok, [NoData EXCEPT !.detail = d, !.error = e]) :
     ok \in BOOLEAN, d \in {UNDEF, "Not authenticated"}, e \in {UNDEF, "failed"}}
  \cup {TransportFailure}

CreateResponses ==
  {Response(FALSE, ok, [NoData EXCEPT !.id = i, !.detail = d]) :
     ok \in BOOLEAN, i \in Ids \cup {0}, d \in {UNDEF, "Invalid"}}
  \cup {TransportFailure}

\* data.count ?? 0
CountOrZero(c) == IF c = -1 THEN 0 ELSE c

\* Normalize with the page number left as it is held.
NormalizeWithoutPageNumber(data, pageNumber, held) ==
  IF data.isArray
    THEN [items |-> data.items,
          meta |-> [count |-> Len(data.items), next |-> NULL, previous |-> NULL],
          page |-> held.page]
  ELSE IF data.hasResults
    THEN [items |-> data.items,
          meta |-> [count |-> CountOrZero(data.count), next |-> data.next,
                    previous |-> data.previous],
          page |-> held.page]
  ELSE held

\* The page state a list response leaves: <<items, meta, page number>>.
\* held is the state before; pageNumber the argument of the load.
Normalize(data, pageNumber, held) ==
  IF data.isArray
    THEN [items |-> data.items,
          meta |-> [count |-> Len(data.items), next |-> NULL, previous |-> NULL],
          page |-> 1]
  ELSE IF data.hasResults
    THEN [items |-> data.items,
          meta |-> [count |-> CountOrZero(data.count), next |-> data.next,
                    previous |-> data.previous],
          page |-> pageNumber]
  ELSE held

\* loadPatients up to its await.
loadPatients(pageNumber, filters) ==
  /\ NumPending < MaxPending
  /\ status' = ""
  /\ inflight' = Issue(inflight, LoadPatientsReq(accessToken, pageNumber, filters))
  /\ loadLog' = Logged(loadLog, LoadPatientsReq(accessToken, pageNumber, filters))

\* The Load Patients and Apply Filters buttons of the patients page and the
\* Refresh Patients button of the consultations page.
LoadPatientsClick ==
  /\ mounted /\ page \in {"patients", "consultations"}
  /\ loadPatients(1, patientFilters)
  /\ UNCHANGED <<mounted, page, initialLoaded, tokenVars, patientVars,
                 consultationVars, pollVars, cookies, rejected>>

clearPatientFilters ==
  /\ mounted /\ page = "patients"
  /\ patientFilters' = ClearedPatientFilters
  /\ loadPatients(1, ClearedPatientFilters)
  /\ UNCHANGED <<mounted, page, initialLoaded, tokenVars, patients, patientForm,
                 patientPage, patientMeta, consultationVars, pollVars, cookies,
                 rejected>>

PreviousPatients ==
  /\ mounted /\ page = "patients" /\ Truthy(patientMeta.previous)
  /\ loadPatients(IF patientPage - 1 > 1 THEN patientPage - 1 ELSE 1, patientFilters)
  /\ UNCHANGED <<mounted, page, initialLoaded, tokenVars, patientVars,
                 consultationVars, pollVars, cookies, rejected>>

NextPatients ==
  /\ mounted /\ page = "patients" /\ Truthy(patientMeta.next)
  /\ patientPage + 1 <= MaxPage
  /\ loadPatients(patientPage + 1, patientFilters)
  /\ UNCHANGED <<mounted, page, initialLoaded, tokenVars, patientVars,
                 consultationVars, pollVars, cookies, rejected>>

\* loadPatients after its await.
LoadPatientsResponse(r, resp) ==
  /\ r \in InFlight /\ r.kind = "loadPatients"
  /\ IF resp.threw
       THEN Reject(r)
       ELSE LET held == [items |-> patients, meta |-> patientMeta,
                         page |-> patientPage]
                got == Normalize(resp.data, r.arg, held)
                wrote == mounted /\ (resp.data.isArray \/ resp.data.hasResults)
            IN /\ patients' = Set(got.items, patients)
               /\ patientMeta' = Set(got.meta, patientMeta)
               /\ patientPage' = Set(got.page, patientPage)
               /\ \E i \in Positions(loadLog, r) :
                    RunEffects(page, accessToken, Set(got.items, patients),
                               initialLoaded, Settle(inflight, r),
                               Set(request(resp, status), status),
                               Completed(loadLog, r, i, wrote))
               /\ UNCHANGED <<mounted, page, tokenVars, patientForm, patientFilters,
                              consultationVars, pollVars, cookies, rejected>>

\* createPatient up to its await.
SubmitPatient ==
  /\ mounted /\ page = "patients"
  /\ NumPending < MaxPending
  /\ status' = ""
  /\ inflight' = Issue(inflight, PlainReq("createPatient", accessToken, 0, <<>>))
  /\ UNCHANGED <<mounted, page, initialLoaded, tokenVars, patientVars,
                 consultationVars, pollVars, cookies, rejected, loadLog>>

\* createPatient after its await.
CreatePatientResponse(r, resp) ==
  /\ r \in InFlight /\ r.kind = "createPatient"
  /\ IF resp.threw
       THEN Reject(r)
       ELSE LET created == resp.data.id # 0
                st == Set(request(resp, status), status)
                pats == IF created THEN Set(<<resp.data.id>> \o patients, patients)
                        ELSE patients
            IN /\ created => Len(patients) < MaxItems
               /\ patients' = pats
               /\ patientForm' = IF created THEN Set(EmptyPatientForm, patientForm)
                                 ELSE patientForm
               /\ RunEffects(page, accessToken, pats, initialLoaded,
                             Settle(inflight, r),
                             IF created THEN Set("Patient created.", status) ELSE st,
                             loadLog)
               /\ UNCHANGED <<mounted, page, tokenVars, patientFilters, patientPage,
                              patientMeta, consultationVars, pollVars, cookies,
                              rejected>>

EditPatientForm(f, v) ==
  /\ mounted /\ page = "patients"
  /\ f \in DOMAIN patientForm /\ v \in FieldValues
  /\ patientForm' = [patientForm EXCEPT ![f] = v]
  /\ UNCHANGED <<viewVars, tokenVars, patients, patientFilters, patientPage,
                 patientMeta, consultationVars, pollVars, cookies, inflight,
                 rejected, loadLog>>

EditPatientFilters(f, v) ==
  /\ mounted /\ page = "patients"
  /\ f \in DOMAIN patientFilters /\ v \in FilterValues
  /\ patientFilters' = [patientFilters EXCEPT ![f] = v]
  /\ UNCHANGED <<viewVars, tokenVars, patients, patientForm, patientPage,
                 patientMeta, consultationVars, pollVars, cookies, inflight,
                 rejected, loadLog>>

\* loadConsultations up to its await, called by a handler of the current
\* render.
loadConsultations(pageNumber, filters) ==
  /\ NumPending < MaxPending
  /\ status' = ""
  /\ inflight' = Issue(inflight,
                       LoadConsultationsReq(accessToken, pageNumber, filters))
  /\ loadLog' = Logged(loadLog,
                       LoadConsultationsReq(accessToken, pageNumber, filters))

LoadConsultationsClick ==
  /\ mounted /\ page = "consultations"
  /\ loadConsultations(1, consultationFilters)
  /\ UNCHANGED <<mounted, page, initialLoaded, tokenVars, patientVars,
                 consultationVars, pollVars, cookies, rejected>>

clearConsultationFilters ==
  /\ mounted /\ page = "consultations"
  /\ consultationFilters' = ClearedConsultationFilters
  /\ loadConsultations(1, ClearedConsultationFilters)
  /\ UNCHANGED <<mounted, page, initialLoaded, tokenVars, patientVars,
                 consultations, consultationForm, consultationPage,
                 consultationMeta, pollVars, cookies, rejected>>

PreviousConsultations ==
  /\ mounted /\ page = "consultations" /\ Truthy(consultationMeta.previous)
  /\ loadConsultations(IF consultationPage - 1 > 1 THEN consultationPage - 1 ELSE 1,
                       consultationFilters)
  /\ UNCHANGED <<mounted, page, initialLoaded, tokenVars, patientVars,
                 consultationVars, pollVars, cookies, rejected>>

NextConsultations ==
  /\ mounted /\ page = "consultations" /\ Truthy(consultationMeta.next)
  /\ consultationPage + 1 <= MaxPage
  /\ loadConsultations(consultationPage + 1, consultationFilters)
  /\ UNCHANGED <<mounted, page, initialLoaded, tokenVars, patientVars,
                 consultationVars, pollVars, cookies, rejected>>

\* loadConsultations after its await.  A load called by the interval
\* callback (r.h # 0) returns into that callback, which then schedules the
\* delayed close of the dialog.
LoadConsultationsResponse(r, resp) ==
  /\ r \in InFlight /\ r.kind = "loadConsultations"
  /\ IF resp.threw
       THEN Reject(r)
       ELSE LET held == [items |-> consultations, meta |-> consultationMeta,
                         page |-> consultationPage]
                got == Normalize(resp.data, r.arg, held)
                wrote == mounted /\ (resp.data.isArray \/ resp.data.hasResults)
            IN /\ consultations' = Set(got.items, consultations)
               /\ consultationMeta' = Set(got.meta, consultationMeta)
               /\ consultationPage' = Set(got.page, consultationPage)
               /\ status' = Set(request(resp, status), status)
               /\ inflight' = Settle(inflight, r)
               /\ \E i \in Positions(loadLog, r) :
                    loadLog' = Completed(loadLog, r, i, wrote)
               /\ IF r.h # 0
                    THEN timeouts' = timeouts (+) SetToBag({r.h})
                    ELSE UNCHANGED timeouts
               /\ UNCHANGED <<mounted, page, initialLoaded, tokenVars, patientVars,
                              consultationForm, consultationFilters, summaryDialog,
                              pollingRef, intervals, nextHandle, ended, cookies,
                              rejected>>

\* createConsultation up to its await.
SubmitConsultation ==
  /\ mounted /\ page = "consultations"
  /\ NumPending < MaxPending
  /\ status' = ""
  /\ inflight' = Issue(inflight, PlainReq("createConsultation", accessToken, 0, <<>>))
  /\ UNCHANGED <<mounted, page, initialLoaded, tokenVars, patientVars,
                 consultationVars, pollVars, cookies, rejected, loadLog>>

\* createConsultation after its await.
CreateConsultationResponse(r, resp) ==
  /\ r \in InFlight /\ r.kind = "createConsultation"
  /\ IF resp.threw
       THEN Reject(r)
       ELSE LET created == resp.data.id # 0
                st == Set(request(resp, status), status)
            IN /\ created => Len(consultations) < MaxItems
               /\ consultations' =
                    IF created THEN Set(<<resp.data.id>> \o consultations, consultations)
                    ELSE consultations
               /\ consultationForm' =
                    IF created THEN Set(EmptyConsultationForm, consultationForm)
                    ELSE consultationForm
               /\ status' = IF created THEN Set("Consultation created.", status) ELSE st
               /\ inflight' = Settle(inflight, r)
               /\ UNCHANGED <<mounted, page, initialLoaded, tokenVars, patientVars,
                              consultationFilters, consultationPage, consultationMeta,
                              pollVars, cookies, rejected, loadLog>>

EditConsultationForm(f, v) ==
  /\ mounted /\ page = "consultations"
  /\ f \in DOMAIN consultationForm /\ v \in FieldValues
  /\ consultationForm' = [consultationForm EXCEPT ![f] = v]
  /\ UNCHANGED <<viewVars, tokenVars, patientVars, consultations,
                 consultationFilters, consultationPage, consultationMeta, pollVars,
                 cookies, inflight, rejected, loadLog>>

EditConsultationFilters(f, v) ==
  /\ mounted /\ page = "consultations"
  /\ f \in DOMAIN consultationFilters /\ v \in FilterValues
  /\ consultationFilters' = [consultationFilters EXCEPT ![f] = v]
  /\ UNCHANGED <<viewVars, tokenVars, patientVars, consultations,
                 consultationForm, consultationPage, consultationMeta, pollVars,
                 cookies, inflight, rejected, loadLog>>

\* ------------------------------------------------------------- summary poll
\* A live interval timer and the closure of its callback.
Timer(h, id, tok, cpage, cfilt) ==
  [h |-> h, id |-> id, tok |-> tok, cpage |-> cpage, cfilt |-> cfilt]

GenerateResponses ==
  {Response(FALSE, ok, [NoData EXCEPT !.detail = d]) :
     ok \in BOOLEAN, d \in {UNDEF, "Not found"}}
  \cup {TransportFailure}

StatusResponses ==
  {Response(FALSE, ok, [NoData EXCEPT !.status = s, !.detail = d]) :
     ok \in BOOLEAN, s \in {UNDEF, "processing", "done", "failed"},
     d \in {UNDEF, "Not found"}}
  \cup {TransportFailure}

\* The generate-summary requests awaiting their response.
GeneratesInFlight ==
  BagCardinality([q \in {x \in InFlight : x.kind = "generateSummary"} |-> inflight[q]])

\* generateSummary up to its await: the button of a listed consultation.
\* (No more requests are made than sessions may still start.)
GenerateSummaryClick(id) ==
  /\ mounted /\ page = "consultations"
  /\ \E i \in 1..Len(consultations) : consultations[i] = id
  /\ NumPending < MaxPending
  /\ nextHandle + GeneratesInFlight <= MaxSessions
  /\ status' = ""
  /\ inflight' = Issue(inflight,
                       Req("generateSummary", accessToken, id, <<>>, 0,
                           consultationPage, consultationFilters))
  /\ UNCHANGED <<mounted, page, initialLoaded, tokenVars, patientVars,
                 consultationVars, pollVars, cookies, rejected, loadLog>>

\* startSummaryPolling with the id of the dialog left as it is.
startSummaryPollingKeepsId(consultationId, tok, cpage, cfilt) ==
  LET stopped == stopPolling(pollingRef, intervals) IN
  [dialog |-> Set([open |-> TRUE, message |-> InProgressMessage,
                   id |-> summaryDialog.id], summaryDialog),
   ref |-> nextHandle,
   ivs |-> stopped.ivs \cup {Timer(nextHandle, consultationId, tok, cpage, cfilt)}]

\* startSummaryPolling: the poll state it leaves.
startSummaryPolling(consultationId, tok, cpage, cfilt) ==
  LET stopped == stopPolling(pollingRef, intervals) IN
  [dialog |-> Set([open |-> TRUE, message |-> InProgressMessage,
                   id |-> consultationId], summaryDialog),
   ref |-> nextHandle,
   ivs |-> stopped.ivs \cup {Timer(nextHandle, consultationId, tok, cpage, cfilt)}]

\* generateSummary after its await.
GenerateSummaryResponse(r, resp) ==
  /\ r \in InFlight /\ r.kind = "generateSummary"
  /\ IF resp.threw
       THEN Reject(r)
       ELSE /\ status' = Set(request(resp, status), status)
            /\ inflight' = Settle(inflight, r)
            /\ IF resp.ok
                 THEN LET started == startSummaryPolling(r.arg, r.tok, r.cpage, r.cfilt)
                      IN /\ nextHandle <= MaxSessions
                         /\ summaryDialog' = started.dialog
                         /\ pollingRef' = started.ref
                         /\ intervals' = started.ivs
                         /\ nextHandle' = nextHandle + 1
                         /\ ended' = Ended("start")
                         /\ UNCHANGED timeouts
                 ELSE UNCHANGED pollVars
            /\ UNCHANGED <<mounted, page, initialLoaded, tokenVars, patientVars,
                           consultationVars, cookies, rejected, loadLog>>

\* The interval fires: the callback up to its await.
Tick(t) ==
  /\ t \in intervals
  /\ NumPending < MaxPending
  /\ inflight' = Issue(inflight,
                       Req("summaryStatus", t.tok, t.id, <<>>, t.h, t.cpage, t.cfilt))
  /\ UNCHANGED <<viewVars, tokenVars, patientVars, consultationVars, pollVars,
                 cookies, rejected, loadLog>>

\* IsTerminal without the comparison with 'processing'.
IsTerminalOnAnyStatus(data) == Truthy(data.status)

IsTerminal(data) == Truthy(data.status) /\ data.status # "processing"

\* The interval callback after the await of its status check, up to the
\* await of the list reload.
SummaryStatusResponse(r, resp) ==
  /\ r \in InFlight /\ r.kind = "summaryStatus"
  /\ IF resp.threw
       THEN Reject(r)
       ELSE /\ IF IsTerminal(resp.data)
                 THEN LET stopped == stopPolling(pollingRef, intervals) IN
                      /\ pollingRef' = stopped.ref
                      /\ intervals' = stopped.ivs
                      /\ UNCHANGED ended
                      /\ summaryDialog' =
                           Set([summaryDialog EXCEPT !.message = RefreshingMessage],
                               summaryDialog)
                      /\ status' = Set("", status)
                      /\ inflight' =
                           Issue(Settle(inflight, r),
                                 Req("loadConsultations", r.tok, r.cpage,
                                     ConsultationQuery(r.cpage, r.cfilt),
                                     r.h, r.cpage, r.cfilt))
                      /\ loadLog' =
                           Logged(loadLog,
                                  Req("loadConsultations", r.tok, r.cpage,
                                      ConsultationQuery(r.cpage, r.cfilt),
                                      r.h, r.cpage, r.cfilt))
                 ELSE /\ status' = Set(request(resp, status), status)
                      /\ inflight' = Settle(inflight, r)
                      /\ UNCHANGED <<pollingRef, intervals, summaryDialog, ended,
                                     loadLog>>
            /\ UNCHANGED <<mounted, page, initialLoaded, tokenVars, patientVars,
                           consultationVars, nextHandle, timeouts, cookies, rejected>>

\* The delayed close scheduled by the interval callback fires.
TimeoutFire(h) ==
  /\ BagIn(h, timeouts)
  /\ timeouts' = timeouts (-) SetToBag({h})
  /\ summaryDialog' = Set(ClosedDialog, summaryDialog)
  /\ UNCHANGED <<viewVars, tokenVars, patientVars, consultationVars, pollingRef,
                 intervals, nextHandle, ended, cookies, inflight, rejected, loadLog>>

\* The backdrop and the Close button of the dialog.
DismissDialog ==
  /\ mounted /\ summaryDialog.open
  /\ pollingRef' = stopPolling(pollingRef, intervals).ref
  /\ intervals' = stopPolling(pollingRef, intervals).ivs
  /\ summaryDialog' = ClosedDialog
  /\ ended' = Ended("dismiss")
  /\ UNCHANGED <<viewVars, tokenVars, patientVars, consultationVars, nextHandle,
                 timeouts, cookies, inflight, rejected, loadLog>>

\* ------------------------------------------------------------- specification
\* Every action, with every answer of the server.
Next ==
  \/ \E p \in PAGES : Navigate(p)
  \/ SubmitLogin
  \/ \E r \in InFlight, resp \in LoginResponses : LoginResponse(r, resp)
  \/ HandleLogout
  \/ \E n \in DOMAIN cookies : ExpireCookie(n)
  \/ Restore
  \/ Unmount
  \/ LoadPatientsClick
  \/ clearPatientFilters
  \/ PreviousPatients
  \/ NextPatients
  \/ \E r \in InFlight, resp \in ListResponses : LoadPatientsResponse(r, resp)
  \/ SubmitPatient
  \/ \E r \in InFlight, resp \in CreateResponses : CreatePatientResponse(r, resp)
  \/ \E f \in DOMAIN patientForm, v \in FieldValues : EditPatientForm(f, v)
  \/ \E f \in DOMAIN patientFilters, v \in FieldValues : EditPatientFilters(f, v)
  \/ LoadConsultationsClick
  \/ clearConsultationFilters
  \/ PreviousConsultations
  \/ NextConsultations
  \/ \E r \in InFlight, resp \in ListResponses : LoadConsultationsResponse(r, resp)
  \/ SubmitConsultation
  \/ \E r \in InFlight, resp \in CreateResponses : CreateConsultationResponse(r, resp)
  \/ \E f \in DOMAIN consultationForm, v \in FieldValues : EditConsultationForm(f, v)
  \/ \E f \in DOMAIN consultationFilters, v \in FieldValues :
       EditConsultationFilters(f, v)
  \/ \E id \in Ids : GenerateSummaryClick(id)
  \/ \E r \in InFlight, resp \in GenerateResponses : GenerateSummaryResponse(r, resp)
  \/ \E t \in intervals : Tick(t)
  \/ \E r \in InFlight, resp \in StatusResponses : SummaryStatusResponse(r, resp)
  \/ \E h \in BagToSet(timeouts) : TimeoutFire(h)
  \/ DismissDialog

Spec == Init /\ [][Next]_vars

\* The summary poll and what it depends on: the consultations page, its
\* list and the view teardown, for a user who stays logged out (no handler
\* of the poll reads the session) and on the consultations page.  The
\* server answers a list request with one bare array or with an error.
LoginOk == Response(FALSE, TRUE, [NoData EXCEPT !.access = "a1", !.refresh = "r/1"])
Failure == Response(FALSE, FALSE, NoData)
ArrayOk == Response(FALSE, TRUE, [NoData EXCEPT !.isArray = TRUE, !.items = <<1, 2>>])

PollStatusResponses ==
  {Response(FALSE, ok, [NoData EXCEPT !.status = s]) :
     ok \in BOOLEAN, s \in {UNDEF, "processing", "done"}}

PollNext ==
  \/ \E p \in {"consultations"} : Navigate(p)
  \/ Unmount
  \/ LoadConsultationsClick
  \/ \E r \in InFlight, resp \in {ArrayOk, Failure} :
       LoadConsultationsResponse(r, resp)
  \/ \E id \in Ids : GenerateSummaryClick(id)
  \/ \E r \in InFlight, resp \in {Response(FALSE, TRUE, NoData), Failure} :
       GenerateSummaryResponse(r, resp)
  \/ \E t \in intervals : Tick(t)
  \/ \E r \in InFlight, resp \in PollStatusResponses : SummaryStatusResponse(r, resp)
  \/ \E h \in BagToSet(timeouts) : TimeoutFire(h)
  \/ DismissDialog

PollSpec == Init /\ [][PollNext]_vars

\* The poll with a network that may fail: as PollSpec without the teardown,
\* and any fetch of the poll may fail in transport.  A fetch in flight
\* settles and a scheduled timeout fires (weak fairness); nothing obliges
\* the user to act or the interval to fire again.
FairPollNext ==
  \/ \E p \in PAGES : Navigate(p)
  \/ LoadConsultationsClick
  \/ \E r \in InFlight, resp \in {ArrayOk, Failure, TransportFailure} :
       LoadConsultationsResponse(r, resp)
  \/ \E id \in Ids : GenerateSummaryClick(id)
  \/ \E r \in InFlight, resp \in {Response(FALSE, TRUE, NoData), Failure,
                                  TransportFailure} :
       GenerateSummaryResponse(r, resp)
  \/ \E t \in intervals : Tick(t)
  \/ \E r \in InFlight, resp \in PollStatusResponses \cup {TransportFailure} :
       SummaryStatusResponse(r, resp)
  \/ \E h \in BagToSet(timeouts) : TimeoutFire(h)
  \/ DismissDialog

FetchSettles ==
  \/ \E r \in InFlight, resp \in {ArrayOk, Failure, TransportFailure} :
       LoadConsultationsResponse(r, resp)
  \/ \E r \in InFlight, resp \in {Response(FALSE, TRUE, NoData), Failure,
                                  TransportFailure} :
       GenerateSummaryResponse(r, resp)
  \/ \E r \in InFlight, resp \in PollStatusResponses \cup {TransportFailure} :
       SummaryStatusResponse(r, resp)

TimeoutFires == \E h \in BagToSet(timeouts) : TimeoutFire(h)

FairPollSpec ==
  /\ Init /\ [][FairPollNext]_vars
  /\ WF_vars(FetchSettles) /\ WF_vars(TimeoutFires)

\* The session: login with every answer of the server, logout, the expiry
\* of the cookies, the reload of the page, the navigation, and the loads
\* the effects issue.
SessionNext ==
  \/ \E p \in PAGES : Navigate(p)
  \/ SubmitLogin
  \/ \E r \in InFlight, resp \in LoginResponses : LoginResponse(r, resp)
  \/ HandleLogout
  \/ \E n \in DOMAIN cookies : ExpireCookie(n)
  \/ Restore
  \/ \E r \in InFlight, resp \in {ArrayOk, Failure} : LoadPatientsResponse(r, resp)
  \/ \E r \in InFlight, resp \in {ArrayOk, Failure} :
       LoadConsultationsResponse(r, resp)

SessionSpec == Init /\ [][SessionNext]_vars

\* The poll of a user who logs in and out: the session with a server that
\* answers a login with both tokens or with an error, and the poll with a
\* server that keeps answering "processing".
Processing == Response(FALSE, TRUE, [NoData EXCEPT !.status = "processing"])

SessionPollNext ==
  \/ \E p \in PAGES : Navigate(p)
  \/ SubmitLogin
  \/ \E r \in InFlight, resp \in {LoginOk, Failure} : LoginResponse(r, resp)
  \/ HandleLogout
  \/ \E r \in InFlight, resp \in {ArrayOk, Failure} : LoadPatientsResponse(r, resp)
  \/ \E r \in InFlight, resp \in {ArrayOk, Failure} :
       LoadConsultationsResponse(r, resp)
  \/ \E id \in Ids : GenerateSummaryClick(id)
  \/ \E r \in InFlight, resp \in {Response(FALSE, TRUE, NoData), Failure} :
       GenerateSummaryResponse(r, resp)
  \/ \E t \in intervals : Tick(t)
  \/ \E r \in InFlight, resp \in {Processing} : SummaryStatusResponse(r, resp)
  \/ DismissDialog

SessionPollSpec == Init /\ [][SessionPollNext]_vars

\* The patient list of a user who stays logged out (the pages and their
\* buttons are rendered without a session): the loads, the pagination, one
\* filter field, one form field and the creation.
\* The server answers a list request with a bare array, with a page of a
\* paginated envelope, or with an error; any request may fail in transport.
ArrayBody(l) == [NoData EXCEPT !.isArray = TRUE, !.items = l]
EnvelopeBody(l, c, n, p) ==
  [NoData EXCEPT !.hasResults = TRUE, !.items = l, !.count = c, !.next = n,
                 !.previous = p]
EquivalentEnvelope(l) == EnvelopeBody(l, Len(l), NULL, NULL)

ListAnswers ==
  {Response(FALSE, TRUE, ArrayBody(<<1, 2>>)),
   Response(FALSE, TRUE, EquivalentEnvelope(<<1, 2>>)),
   Response(FALSE, TRUE, EnvelopeBody(<<1>>, 2, "next-url", NULL)),
   Response(FALSE, TRUE, EnvelopeBody(<<2>>, 2, NULL, "previous-url")),
   Response(FALSE, FALSE, ArrayBody(<<1>>)),
   Response(FALSE, FALSE, [NoData EXCEPT !.detail = "Not authenticated"]),
   Failure,
   TransportFailure}

CreateAnswers ==
  {Response(FALSE, TRUE, [NoData EXCEPT !.id = 2]),
   Response(FALSE, TRUE, NoData),
   Response(FALSE, FALSE, [NoData EXCEPT !.id = 2]),
   Response(FALSE, FALSE, [NoData EXCEPT !.detail = "Invalid"]),
   TransportFailure}

PatientListNext ==
  \/ \E p \in {"patients"} : Navigate(p)
  \/ LoadPatientsClick
  \/ clearPatientFilters
  \/ PreviousPatients
  \/ NextPatients
  \/ \E r \in InFlight, resp \in ListAnswers : LoadPatientsResponse(r, resp)
  \/ SubmitPatient
  \/ \E r \in InFlight, resp \in CreateAnswers : CreatePatientResponse(r, resp)
  \/ \E f \in {"full_name"}, v \in FieldValues : EditPatientForm(f, v)
  \/ \E f \in {"full_name"}, v \in FieldValues : EditPatientFilters(f, v)

PatientListSpec == Init /\ [][PatientListNext]_vars

\* The loads of both lists, for a user who stays logged out: the Load
\* buttons and the pagination, with a server that answers with a bare
\* array, with the first or the last page of a paginated envelope, or with
\* an error.
PageAnswers ==
  {ArrayOk,
   Response(FALSE, TRUE, EnvelopeBody(<<1>>, 2, "next-url", NULL)),
   Response(FALSE, TRUE, EnvelopeBody(<<2>>, 2, NULL, "previous-url")),
   Failure}

LoadNext ==
  \/ \E p \in {"patients", "consultations"} : Navigate(p)
  \/ LoadPatientsClick
  \/ PreviousPatients
  \/ NextPatients
  \/ \E r \in InFlight, resp \in PageAnswers : LoadPatientsResponse(r, resp)
  \/ LoadConsultationsClick
  \/ PreviousConsultations
  \/ NextConsultations
  \/ \E r \in InFlight, resp \in PageAnswers : LoadConsultationsResponse(r, resp)

LoadSpec == Init /\ [][LoadNext]_vars

\* The poll of a user who pages and filters the consultation list while a
\* summary is generated: a server with a paginated list, which accepts every
\* generate request and answers a status check with "processing" or "done".
Done == Response(FALSE, TRUE, [NoData EXCEPT !.status = "done"])

PagingPollNext ==
  \/ \E p \in {"consultations"} : Navigate(p)
  \/ LoadConsultationsClick
  \/ NextConsultations
  \/ \E f \in {"patient_id"}, v \in FieldValues : EditConsultationFilters(f, v)
  \/ \E r \in InFlight,
        resp \in {Response(FALSE, TRUE, EnvelopeBody(<<1>>, 2, "next-url", NULL)),
                  Response(FALSE, TRUE, EnvelopeBody(<<2>>, 2, NULL, "previous-url"))} :
       LoadConsultationsResponse(r, resp)
  \/ \E id \in Ids : GenerateSummaryClick(id)
  \/ \E r \in InFlight, resp \in {Response(FALSE, TRUE, NoData)} :
       GenerateSummaryResponse(r, resp)
  \/ \E t \in intervals : Tick(t)
  \/ \E r \in InFlight, resp \in {Processing, Done} : SummaryStatusResponse(r, resp)
  \/ \E h \in BagToSet(timeouts) : TimeoutFire(h)
  \/ DismissDialog

PagingPollSpec == Init /\ [][PagingPollNext]_vars

\* The poll against a server that never reports a terminal status: a
\* status check is answered with "processing", with an error, or not at
\* all, and a generate request is accepted, refused or lost.  A fetch in
\* flight settles (weak fairness); a live interval timer
\* fires again and again (strong fairness: setInterval fires every 3
\* seconds, whatever else is pending).
StatusFailure == Response(FALSE, FALSE, [NoData EXCEPT !.detail = "Not ready"])
TickingAnswers == {Processing, StatusFailure, TransportFailure}

TickingSettles ==
  \/ \E r \in InFlight, resp \in {ArrayOk} : LoadConsultationsResponse(r, resp)
  \/ \E r \in InFlight, resp \in {Response(FALSE, TRUE, NoData), Failure,
                                  TransportFailure} :
       GenerateSummaryResponse(r, resp)
  \/ \E r \in InFlight, resp \in TickingAnswers : SummaryStatusResponse(r, resp)

Ticks == \E t \in intervals : Tick(t)

TickingPollNext ==
  \/ \E p \in {"consultations"} : Navigate(p)
  \/ Unmount
  \/ LoadConsultationsClick
  \/ \E id \in Ids : GenerateSummaryClick(id)
  \/ TickingSettles
  \/ Ticks
  \/ DismissDialog

TickingPollSpec ==
  /\ Init /\ [][TickingPollNext]_vars
  /\ WF_vars(TickingSettles) /\ SF_vars(Ticks)

\* The filters of both lists, for a user who stays logged out: two filter
\* fields of the patients and one of the consultations, which may hold
\* nothing, blanks only or a value; the Apply and Clear buttons; a server
\* that answers with a bare array.
QueryNext ==
  \/ \E p \in {"patients", "consultations"} : Navigate(p)
  \/ \E f \in {"full_name", "date_of_birth_from"}, v \in FilterValues :
       EditPatientFilters(f, v)
  \/ LoadPatientsClick
  \/ clearPatientFilters
  \/ \E r \in InFlight, resp \in {ArrayOk} : LoadPatientsResponse(r, resp)
  \/ \E f \in {"patient_id"}, v \in FilterValues : EditConsultationFilters(f, v)
  \/ LoadConsultationsClick
  \/ clearConsultationFilters
  \/ \E r \in InFlight, resp \in {ArrayOk} : LoadConsultationsResponse(r, resp)

QuerySpec == Init /\ [][QueryNext]_vars

\* ------------------------------------------------------------- claims
\* The fetches a step has added to those in flight.
Issued == {q \in BagToSet(inflight') : CopiesIn(q, inflight') > CopiesIn(q, inflight)}
ReloadIssued == \E q \in Issued : q.kind = "loadConsultations"
EndedBy(h, by) == [h |-> h, by |-> by] \in ended

\* C1: in every reachable state at most one interval timer is live.
C1_AtMostOneLiveTimer == Cardinality(intervals) <= 1

\* A second session polls after its start cleared the timer of the first.
C1_Witness ==
  /\ EndedBy(1, "start")
  /\ \E t \in intervals : t.h = 2 /\ pollingRef = 2

\* C2: dismissing the dialog while polling leaves no timer, a closed dialog
\* and no tracked id; and the completion of a status check of a dismissed
\* session neither changes the dialog nor issues a reload of the list.
C2_DismissedSessionHasNoEffect ==
  [][/\ (DismissDialog /\ pollingRef # 0) =>
          (intervals' = {} /\ pollingRef' = 0 /\ summaryDialog' = ClosedDialog)
     /\ \A r \in InFlight :
          (/\ r.kind = "summaryStatus"
           /\ EndedBy(r.h, "dismiss")
           /\ \E resp \in StatusResponses : SummaryStatusResponse(r, resp))
          => (summaryDialog' = summaryDialog /\ ~ReloadIssued)]_vars

\* C3: once session B has started while session A was polling, no event of
\* A (the completion of one of its status checks, its delayed close)
\* cancels the timer of the session that polls now, changes the dialog or
\* issues a reload of the list.
C3_SupersededSessionHasNoEffect ==
  [][\A a \in 1..MaxSessions :
       (EndedBy(a, "start") /\ pollingRef # 0) =>
         /\ \A r \in InFlight :
              (/\ r.kind = "summaryStatus" /\ r.h = a
               /\ \E resp \in StatusResponses : SummaryStatusResponse(r, resp))
              => (/\ UNCHANGED <<pollingRef, intervals, summaryDialog>>
                  /\ ~ReloadIssued)
         /\ TimeoutFire(a) => UNCHANGED summaryDialog]_vars

\* C4: right after handleLogout no interval timer is live (so no further
\* status check is issued).
C4_LogoutCancelsTheTimer == [][HandleLogout => intervals' = {}]_vars

\* C5: handleLogout leaves both tokens empty, both cookies cleared and both
\* lists empty, and a second call would leave the state it finds.
C5_LogoutClearsAndIsIdempotent ==
  [][HandleLogout =>
       /\ accessToken' = "" /\ refreshToken' = ""
       /\ ~cookies'[COOKIE_ACCESS].present /\ ~cookies'[COOKIE_REFRESH].present
       /\ patients' = <<>> /\ consultations' = <<>>
       /\ handleLogout(LogoutView') = LogoutView']_vars

\* Logged out after both lists had been loaded (a logout leaves the meta).
C5_Witness ==
  /\ status = "Logged out." /\ ~isLoggedIn
  /\ patients = <<>> /\ patientMeta.count = 2
  /\ consultations = <<>> /\ consultationMeta.count = 2

\* C6: the tokens in memory are both present or both absent, and so are
\* the two cookies.
C6_CredentialPairAllOrNothing ==
  /\ Truthy(accessToken) <=> Truthy(refreshToken)
  /\ cookies[COOKIE_ACCESS].present <=> cookies[COOKIE_REFRESH].present

\* C7: a login answered with a status that is not 2xx leaves the tokens,
\* the cookies and the page as they were, whatever the body.
C7_FailedLoginLeavesSession ==
  [][\A r \in InFlight, resp \in LoginResponses :
       (/\ r.kind = "login" /\ ~resp.threw /\ ~resp.ok
        /\ LoginResponse(r, resp))
       => UNCHANGED <<accessToken, refreshToken, cookies, page>>]_vars

\* C8: no call of request ends in a rejection.
C8_RequestNeverThrows == ~rejected

\* C9: a tick of the polling session that is answered with a terminal
\* status cancels the timer, sets the refreshing notice and issues the
\* reload of the list; and the dialog that shows the refreshing notice is
\* closed in the end, with no timer live.
C9_TerminalTickLeadsToIdle ==
  /\ [][\A r \in InFlight, resp \in StatusResponses :
          (/\ r.kind = "summaryStatus" /\ r.h = pollingRef
           /\ ~resp.threw /\ IsTerminal(resp.data)
           /\ SummaryStatusResponse(r, resp))
          => (/\ intervals' = {}
              /\ summaryDialog'.message = RefreshingMessage
              /\ ReloadIssued)]_vars
  /\ (summaryDialog.open /\ summaryDialog.message = RefreshingMessage)
       ~> (~summaryDialog.open /\ intervals = {})

\* C10: a tick of the polling session whose status check is answered with a
\* status that is not 2xx, or with the status "processing", changes nothing:
\* not the timer, the dialog, the consultation list or the status message,
\* and no reload is issued.
C10_NonTerminalTickChangesNothing ==
  [][\A r \in InFlight, resp \in StatusResponses :
       (/\ r.kind = "summaryStatus" /\ r.h = pollingRef
        /\ ~resp.threw
        /\ ~resp.ok \/ resp.data.status = "processing"
        /\ SummaryStatusResponse(r, resp))
       => (/\ UNCHANGED <<pollVars, consultationVars, status>>
           /\ ~ReloadIssued)]_vars

\* The page state of each resource: items, count, next, previous and page
\* number.
PatientPageState == [items |-> patients, meta |-> patientMeta, page |-> patientPage]
ConsultationPageState ==
  [items |-> consultations, meta |-> consultationMeta, page |-> consultationPage]

\* C11: a load that receives a bare array ends in the page state (items,
\* count, next, previous, page number) in which the same load would end on
\* the equivalent envelope {results, count: length, next: null, previous:
\* null}, for every requested page number, for patients and consultations.
C11_ArrayAndEnvelopeNormalizeAlike ==
  [][\A r \in InFlight, l \in ServerLists :
       /\ LoadPatientsResponse(r, Response(FALSE, TRUE, ArrayBody(l)))
            => PatientPageState' =
                 Normalize(EquivalentEnvelope(l), r.arg, PatientPageState)
       /\ LoadConsultationsResponse(r, Response(FALSE, TRUE, ArrayBody(l)))
            => ConsultationPageState' =
                 Normalize(EquivalentEnvelope(l), r.arg, ConsultationPageState)]_vars

\* C12: a creation whose POST fails (a status that is not 2xx, or no
\* response) leaves the form and the list; one whose POST succeeds puts the
\* created item first in the list as it stands then, keeps the others in
\* order, resets the form and issues no load.
C12_CreationInsertsOrLeaves ==
  [][\A r \in InFlight, resp \in CreateResponses :
       /\ CreatePatientResponse(r, resp) =>
            IF resp.threw \/ ~resp.ok
              THEN UNCHANGED <<patientForm, patients>>
              ELSE resp.data.id # 0 =>
                     /\ patients' = <<resp.data.id>> \o patients
                     /\ patientForm' = EmptyPatientForm
                     /\ Issued = {}
       /\ CreateConsultationResponse(r, resp) =>
            IF resp.threw \/ ~resp.ok
              THEN UNCHANGED <<consultationForm, consultations>>
              ELSE resp.data.id # 0 =>
                     /\ consultations' = <<resp.data.id>> \o consultations
                     /\ consultationForm' = EmptyConsultationForm
                     /\ Issued = {}]_vars

\* C13: the restore at startup logs in exactly when an access token is
\* persisted: then the access token is the persisted one and the page is
\* 'patients'; otherwise both tokens in memory are empty and the page is
\* 'login', whatever refresh token is persisted.  No request other than the
\* loads of the two lists is issued.
C13_RestoreFromCookiesAlone ==
  [][Restore =>
       LET persisted == cookies[COOKIE_ACCESS].present
                          /\ cookies[COOKIE_ACCESS].value # ""
       IN /\ isLoggedIn' <=> persisted
          /\ persisted =>
               /\ accessToken' = decodeURIComponent(cookies[COOKIE_ACCESS].value)
               /\ page' = "patients"
          /\ ~persisted =>
               /\ accessToken' = "" /\ refreshToken' = ""
               /\ page' = "login"
          /\ \A q \in BagToSet(inflight') :
               q.kind \in {"loadPatients", "loadConsultations"}]_vars

\* Restored with a refresh cookie and no access cookie: logged out, no token
\* in memory.
C13_Witness ==
  /\ mounted /\ page = "login"
  /\ ~cookies[COOKIE_ACCESS].present /\ cookies[COOKIE_REFRESH].present
  /\ accessToken = "" /\ refreshToken = ""

\* C14: a load that fails (a status that is not 2xx, or no response) leaves
\* the page state of its resource as it was and ends with the failure
\* message in the status.
C14_FailedLoadLeavesPageState ==
  [][\A r \in InFlight, resp \in ListResponses :
       /\ (/\ resp.threw \/ ~resp.ok
           /\ LoadPatientsResponse(r, resp))
            => /\ PatientPageState' = PatientPageState
               /\ status' = "Error: " \o ErrorMessage(resp.data)
       /\ (/\ resp.threw \/ ~resp.ok
           /\ LoadConsultationsResponse(r, resp))
            => /\ ConsultationPageState' = ConsultationPageState
               /\ status' = "Error: " \o ErrorMessage(resp.data)]_vars

\* The page state a list answer holds for a load of page pageNumber.
Answered(data, pageNumber) ==
  [items |-> data.items,
   meta |-> IF data.isArray
              THEN [count |-> Len(data.items), next |-> NULL, previous |-> NULL]
              ELSE [count |-> IF data.count = -1 THEN 0 ELSE data.count,
                    next |-> data.next, previous |-> data.previous],
   page |-> IF data.isArray THEN 1 ELSE pageNumber]

\* C15: loads of one resource are not fenced by the order of their issue.
\* Every load that receives a list writes its items, metadata and page
\* number when its response arrives, whichever loads of that resource were
\* issued after it and have written before it: the last response determines
\* the page state held.
C15_LastResponseDetermines ==
  [][\A r \in InFlight, resp \in PageAnswers :
       /\ (/\ ~resp.threw /\ (resp.data.isArray \/ resp.data.hasResults)
           /\ LoadPatientsResponse(r, resp))
            => PatientPageState' = Answered(resp.data, r.arg)
       /\ (/\ ~resp.threw /\ (resp.data.isArray \/ resp.data.hasResults)
           /\ LoadConsultationsResponse(r, resp))
            => ConsultationPageState' = Answered(resp.data, r.arg)]_vars

\* Held for each resource: the page a load of page 2 has written after a
\* load issued later had written.
C15_Witness ==
  /\ loadLog["loadPatients"].stale /\ patientPage = 2
  /\ loadLog["loadConsultations"].stale /\ consultationPage = 2

\* C16: the reload of the list that a terminal status check issues asks for
\* the consultation page and with the filters the view holds when that
\* status check is processed.
C16_RefreshLoadsCurrentPage ==
  [][\A r \in InFlight, resp \in StatusResponses :
       (/\ r.kind = "summaryStatus"
        /\ ~resp.threw /\ IsTerminal(resp.data)
        /\ SummaryStatusResponse(r, resp))
       => \A q \in Issued :
            /\ q.kind = "loadConsultations"
            /\ q.arg = consultationPage
            /\ q.query = ConsultationQuery(consultationPage, consultationFilters)]_vars

\* A status check of a live timer is in flight.
CheckInFlight ==
  \E t \in intervals, r \in InFlight : r.kind = "summaryStatus" /\ r.h = t.h

\* C17: there is no give-up.  A live timer is cancelled only by a step that
\* processes a status other than "processing", dismisses the dialog, tears
\* the view down or starts a new session; an answer "processing", an error
\* without such a status and a failure in transport leave it live.  And
\* when a timer stays live for ever, status checks are issued again and
\* again, for ever.
C17_NoGiveUp ==
  /\ [][\A t \in intervals :
          t \notin intervals' =>
            \/ DismissDialog
            \/ Unmount
            \/ \E r \in InFlight : GenerateSummaryResponse(r, Response(FALSE, TRUE, NoData))
            \/ \E r \in InFlight, resp \in StatusResponses :
                 /\ ~resp.threw /\ resp.data.status \notin {UNDEF, "processing"}
                 /\ SummaryStatusResponse(r, resp)]_vars
  /\ [][\A r \in InFlight, resp \in TickingAnswers :
          (/\ resp.threw \/ resp.data.status \in {UNDEF, "processing"}
           /\ SummaryStatusResponse(r, resp))
          => intervals' = intervals]_vars
  /\ <>[](intervals # {}) => []<><<Ticks>>_vars

\* The first session still polls after one of its status checks got an
\* error and another one no answer.
C17_Witness ==
  /\ nextHandle = 2 /\ pollingRef = 1
  /\ \E t \in intervals : t.h = 1
  /\ status = "Error: Not ready" /\ rejected
  /\ CheckInFlight

\* C18: a poll session is entered only by a generate-summary request that
\* succeeds.  A request that fails (a status that is not 2xx, or no
\* response) leaves the timers, the dialog and the tracked id; one that
\* succeeds leaves a timer for its consultation and the dialog open with the
\* in-progress message and the id of that consultation; and no other step
\* starts a timer or opens the dialog.
C18_PollEnteredOnGenerateSuccess ==
  /\ [][\A r \in InFlight, resp \in GenerateResponses :
          GenerateSummaryResponse(r, resp) =>
            IF resp.threw \/ ~resp.ok
              THEN UNCHANGED <<intervals, pollingRef, summaryDialog>>
              ELSE /\ \E t \in intervals' \ intervals :
                        t.id = r.arg /\ t.h = pollingRef'
                   /\ mounted =>
                        summaryDialog' = [open |-> TRUE, message |-> InProgressMessage,
                                          id |-> r.arg]]_vars
  /\ [][(intervals' \ intervals # {} \/ (~summaryDialog.open /\ summaryDialog'.open))
          => \E r \in InFlight :
               GenerateSummaryResponse(r, Response(FALSE, TRUE, NoData))]_vars

\* The session of consultation 2 polls, started while the session of
\* consultation 1 was polling.
C18_Witness ==
  /\ EndedBy(1, "start")
  /\ \E t \in intervals : t.h = 2 /\ t.id = 2 /\ pollingRef = 2
  /\ summaryDialog = [open |-> TRUE, message |-> InProgressMessage, id |-> 2]

\* The query has the field f.
HasField(query, f) == \E i \in 1..Len(query) : query[i][1] = f

\* The query has exactly the filter fields whose value is not blank (not
\* empty after trimming), each with its value.
SendsNonBlankFilters(query, filters) ==
  \A f \in DOMAIN filters :
    /\ HasField(query, f) <=> filters[f] \notin {"", " "}
    /\ \A i \in 1..Len(query) : query[i][1] = f => query[i][2] = filters[f]

\* C19: the query of a load of patients or consultations has a filter
\* field exactly when the value passed for it is not blank; a blank filter
\* is not in the query at all.
C19_BlankFiltersOmitted ==
  [][/\ LoadPatientsClick =>
          /\ Issued # {}
          /\ \A q \in Issued : SendsNonBlankFilters(q.query, patientFilters)
     /\ clearPatientFilters =>
          /\ Issued # {}
          /\ \A q \in Issued : SendsNonBlankFilters(q.query, patientFilters')
     /\ LoadConsultationsClick =>
          /\ Issued # {}
          /\ \A q \in Issued : SendsNonBlankFilters(q.query, consultationFilters)
     /\ clearConsultationFilters =>
          /\ Issued # {}
          /\ \A q \in Issued : SendsNonBlankFilters(q.query, consultationFilters')]_vars

\* In flight: a load of patients applied with one filter of blanks only and
\* one filter with a value, and a load of consultations applied with a
\* filter of blanks only.
C19_Witness ==
  /\ patientFilters.full_name = " " /\ patientFilters.date_of_birth_from = "x"
  /\ \E q \in InFlight :
       /\ q.kind = "loadPatients"
       /\ q.query = << <<"page", "1">>, <<"date_of_birth_from", "x">> >>
  /\ consultationFilters.patient_id = " "
  /\ \E q \in InFlight :
       /\ q.kind = "loadConsultations"
       /\ q.query = << <<"page", "1">> >>

\* C20: the dialog and the timer stay in step: while an interval timer is
\* live the dialog is open and tracks the consultation that timer polls (so
\* no delayed close of a finished session closes the dialog of a session
\* that still polls).
C20_DialogAndTimerInStep ==
  \A t \in intervals : summaryDialog.open /\ summaryDialog.id = t.id

\* The reloads of the consultation list that session h has issued and that
\* have not been answered yet, and the delayed closes of the dialog that
\* session h has scheduled and that have not fired yet.
RefreshesPending(h) ==
  BagCardinality([q \in {x \in InFlight : x.kind = "loadConsultations" /\ x.h = h}
                    |-> CopiesIn(q, inflight)])
ClosesPending(h) == CopiesIn(h, timeouts)

\* C21: one poll session triggers at most one reload of the consultation
\* list and at most one delayed close of the dialog, also when several of
\* its status checks are in flight and more than one of them returns a
\* terminal status: so at no moment two reloads of one session are awaited
\* or two closes of one session are scheduled.
C21_OneRefreshAndCloseASession ==
  \A h \in 1..MaxSessions : RefreshesPending(h) <= 1 /\ ClosesPending(h) <= 1

\* The fetches a step has taken from those in flight: the ones it answers.
Settled == {q \in InFlight : CopiesIn(q, inflight') < CopiesIn(q, inflight)}

\* A fetch whose Authorization header carries an access token. The token of
\* the view becomes empty through handleLogout only, so while the view is
\* logged out such a fetch carries the token of the session that was left.
CarriesToken(q) == q.tok # ""

\* C22: from handleLogout until the next successful login (every step that
\* ends logged out) no fetch carrying the old access token is issued, and
\* the answer to such a fetch, in flight since before the logout or issued
\* by a poll tick after it, leaves the patients and the consultations lists
\* empty.
C22_LoggedOutIsQuietAndEmpty ==
  [][accessToken' = "" =>
       /\ \A q \in Issued : ~CarriesToken(q)
       /\ (\E r \in Settled : CarriesToken(r)) =>
            /\ patients = <<>> => patients' = <<>>
            /\ consultations = <<>> => consultations' = <<>>]_vars

====
